---- MODULE Spec2Model ----
(***************************************************************************)
(* The concurrent coordination layer of multimedia-sys:                    *)
(*   - FFmpegStreamer (internal/streaming): the supervisor of the one      *)
(*     external ffmpeg process, its mutex, its status flag, its handle and *)
(*     the exit watcher goroutine armed by every launch;                   *)
(*   - the callers of the supervisor: the HTTP handlers of cmd/server/main *)
(*     (each start-stream request runs under its own cancellation scope,   *)
(*     cancelled when the handler returns), the GPIO callback of           *)
(*     facade.MonitorGPIO (which runs under the monitoring scope), and     *)
(*     main's shutdown sequence;                                           *)
(*   - GPIOManagerImpl.MonitorButton (internal/gpio): the debounce loop;   *)
(*   - WebSocketManagerImpl (internal/websocket): the set of client        *)
(*     connections, its mutex, the goroutine of every connection and the   *)
(*     goroutines that broadcast.                                          *)
(***************************************************************************)
EXTENDS Integers, FiniteSets, Sequences, TLC

\* ------------------------------------------------------------------ bounds

\* Processes the supervisor may launch in one run; a launch beyond it fails
\* (resource exhaustion is one of the launch failures of cmd.Start).
MaxProcs == 3

\* Poll ticks of the debounce loop that one run observes.
MaxTicks == 120

\* Client connections the server accepts in one run.
MaxConns == 2

\* ------------------------------------------------------ program constants

\* The ticker period of MonitorButton, in milliseconds.
TickMs == 10

\* The debounce window main hands to NewGPIOManager, in milliseconds.
DebounceMs == 500

\* rpio.Low and rpio.High; the pin is pulled up, so a pressed button reads Low.
Low == "Low"
High == "High"

\* The zero value of rpio.State (Low State = iota) and of time.Time (far in the
\* past: time.Since of it exceeds every debounce window).
ZeroState == Low
ZeroTime == 0 - (DebounceMs + TickMs)

\* ------------------------------------------------------------------ state

Handlers == {"h1"}
Gpio == "g"
Threads == Handlers \cup {Gpio}
Pids == 1..MaxProcs
NoPid == 0
NoHolder == "none"
\* The mutex held by an exit watcher: the one whose watcher state is "cs".
WatcherHolder == "watcher"

VARIABLES
    status,        \* FFmpegStreamer.status
    cmd,           \* FFmpegStreamer.cmd: NoPid (nil) or the process of the stored handle
    mutexW,        \* FFmpegStreamer.mutex: the goroutine holding it for writing
    mutexR,        \* FFmpegStreamer.mutex: the goroutines holding it for reading
    proc,          \* the OS state of every process: unborn, running, killed, zombie, reaped
    ctxOf,         \* the cancellation scope a process was launched under: none, req, mon
    reqDone,       \* for a req-scoped process: its request scope is done
    watcher,       \* the exit watcher goroutine of a process: none, wait, lock, cs, done
    nextPid,       \* the next process to launch
    pc,            \* where every caller goroutine stands
    ret,           \* the error value the supervisor call returned: none, ok, err
    logged,        \* the message the supervisor call logged
    mine,          \* the process the current call of a goroutine launched
    mainPc,        \* main: serving, shutdown, cancelled, exited
    monCancelled,  \* the monitoring scope of main has been cancelled
    lastEffective  \* history: the last supervisor call that was not a no-op

supVars == <<status, cmd, mutexW, mutexR, proc, ctxOf, reqDone, watcher, nextPid,
             pc, ret, logged, mine, mainPc, monCancelled, lastEffective>>

VARIABLES
    now,           \* the time of the current poll tick, in milliseconds
    level,         \* the level the pin read on the last tick
    lastState,     \* MonitorButton.lastState
    lastDebounce,  \* MonitorButton.lastDebounce
    callbacks,     \* how many times MonitorButton has invoked the callback
    monPc,         \* MonitorButton: polling, returned
    shape,         \* history of the input: start, released, pressed, other
    heldMs,        \* history: how long the input has read its current level
    tickPending,   \* ticker.C holds a tick the loop has not yet received
    confirmed,     \* history of the input: the level that last stayed for longer than the window
    presses,       \* history of the input: how often a stable High was followed by a stable Low
    ticksAfterCancel  \* history: poll ticks processed after the monitoring scope was cancelled

gpioVars == <<now, level, lastState, lastDebounce, callbacks, monPc, shape, heldMs,
              tickPending, confirmed, presses, ticksAfterCancel>>

\* The client connections, in the order they are accepted; NoConn is no connection.
Conns == 1..MaxConns
NoConn == 0

\* The goroutines that call BroadcastMessage.
Publishers == {"b1", "b2"}

VARIABLES
    clients,       \* WebSocketManagerImpl.clients: the keys of the map
    hubW,          \* WebSocketManagerImpl.mutex: the connection whose goroutine holds it for writing
    hubR,          \* WebSocketManagerImpl.mutex: the broadcasts holding it for reading
    connPc,        \* HandleWebSocket of a connection: none, want_add, add_cs, reading,
                   \*   want_remove, remove_cs, ended
    broken,        \* a write to the connection fails: the peer is gone or it was closed
    pubPc,         \* BroadcastMessage: idle, iter, write, failed
    visited,       \* the keys the range of a broadcast has produced in this pass
    cur,           \* the key the range of a broadcast has just produced
    delivered,     \* history: the connections a pass has written the message to
    atStart,       \* history: the keys of the map when a pass took the read lock
    failedOnce,    \* history: the connections a write has failed on
    retried,       \* history: a write was attempted on a connection a write had failed on
    hubFatal,      \* the Go runtime has stopped the program on a concurrent map access
    stalled,       \* a write to the connection blocks: the peer has stopped reading
    inbox          \* history: the last messages of the facade a connection was sent

hubVars == <<clients, hubW, hubR, connPc, broken, pubPc, visited, cur, delivered,
             atStart, failedOnce, retried, hubFatal, stalled, inbox>>

VARIABLES
    published      \* history: the messages the current facade call of a goroutine has broadcast

facVars == <<published>>

vars == <<supVars, gpioVars, hubVars, facVars>>

\* ----------------------------------------------------------- the processes

Alive(p) == proc[p] \in {"running", "killed"}
Exited(p) == proc[p] \in {"zombie", "reaped"}
Launched(p) == proc[p] # "unborn"

\* The Go runtime of the application is still there: main has not returned.
AppRunning == mainPc # "exited"

\* ctx.Done() of the scope a process was launched under.
CtxDone(p) ==
    \/ ctxOf[p] = "mon" /\ monCancelled
    \/ ctxOf[p] = "req" /\ reqDone[p]

\* os.Process.Kill: it fails once Wait has reaped the process (ErrProcessDone);
\* the signal to a zombie is accepted and does nothing.
KillFails(p) == proc[p] = "reaped"

\* A Kill that returns only when the process has exited.
KillAndWait(p) == [proc EXCEPT ![p] = IF @ \in {"running", "killed"} THEN "zombie" ELSE @]

\* os.Process.Kill sends SIGKILL and returns: the process dies later.
KillEffect(p) == [proc EXCEPT ![p] = IF @ = "running" THEN "killed" ELSE @]

\* A Lock that never waits.
MutexNeverWaits == TRUE

\* s.mutex.Lock(): no goroutine holds the mutex, for writing or for reading.
MutexFree == mutexW = NoHolder /\ mutexR = {}

\* The goroutines inside a critical section that writes: the callers between
\* Lock and Unlock of StartStream or StopStream, and the watchers between
\* Lock and Unlock.
CallersInCs == {t \in Threads : pc[t] \in {"start_cs", "stop_cs"}}
WatchersInCs == {p \in Pids : watcher[p] = "cs"}

\* ------------------------------------------------------ FFmpegStreamer

\* A StartStream without the test of s.status.
NeverAlreadyRunning == FALSE

\* StartStream: `if s.status` (the idempotent start).
AlreadyRunning == status

\* A StartStream that sets s.status before it looks at the error of cmd.Start.
StatusSetBeforeLaunch == TRUE

\* StartStream: what a failed cmd.Start leaves in s.status (the early return
\* comes before any assignment).
StatusAfterFailedLaunch == status

\* A StartStream that launches without the `go func()` of the watcher.
NoWatcherArmed == "none"

\* StartStream: the watcher goroutine the launch arms (`go func() { cmd.Wait() ... }`).
ArmedWatcher == "wait"

\* A watcher that logs the exit and leaves s.status as it is.
StatusKeptAfterExit == status

\* The watcher goroutine: `s.status = false` under the mutex.
StatusAfterExit == FALSE

\* A StopStream that tests the handle and not s.status.
NoHandleStored == cmd = NoPid

\* StopStream: `if !s.status || s.cmd == nil || s.cmd.Process == nil`. A stored
\* handle always has its Process: s.cmd is assigned after cmd.Start succeeded.
NothingToStop == ~status \/ cmd = NoPid

\* A StartStream that starts the stored handle again when there is one.
ReusedHandle == IF cmd # NoPid THEN cmd ELSE nextPid

\* StartStream: `cmd := exec.CommandContext(...)` makes a new handle for every
\* launch, and `s.cmd = cmd` stores it.
NewHandle == nextPid

\* StopStream: what `if err := s.cmd.Process.Kill(); err != nil { return err }` returns.
KillFailureResult == "err"

\* The scope a goroutine passes to StartStream: the GPIO callback passes the
\* monitoring scope, an HTTP handler the scope of its request.
ScopeOf(t) == IF t = Gpio THEN "mon" ELSE "req"

\* s.mutex.Lock() of StartStream.
StartAcquire(t) ==
    /\ AppRunning
    /\ pc[t] = "want_start"
    /\ MutexFree
    /\ mutexW' = t
    /\ pc' = [pc EXCEPT ![t] = "start_cs"]
    /\ UNCHANGED <<status, cmd, mutexR, proc, ctxOf, reqDone, watcher, nextPid,
                   ret, logged, mine, mainPc, monCancelled, lastEffective>>
    /\ UNCHANGED <<gpioVars, hubVars, facVars>>

\* The body of StartStream under the mutex, and the deferred Unlock. launchOk is
\* the outcome of cmd.Start(): it fails when the binary is missing or resources
\* are exhausted, and when the scope is already done (exec returns ctx.Err()).
StartBody(t, launchOk) ==
    /\ AppRunning
    /\ pc[t] = "start_cs"
    /\ mutexW = t
    /\ IF AlreadyRunning
       THEN /\ logged' = [logged EXCEPT ![t] = "already_running"]
            /\ ret' = [ret EXCEPT ![t] = "ok"]
            /\ UNCHANGED <<status, cmd, proc, ctxOf, watcher, nextPid, mine, lastEffective>>
       ELSE IF ~launchOk \/ nextPid > MaxProcs \/ (ScopeOf(t) = "mon" /\ monCancelled)
       THEN /\ logged' = [logged EXCEPT ![t] = "start_failed"]
            /\ ret' = [ret EXCEPT ![t] = "err"]
            /\ status' = StatusAfterFailedLaunch
            /\ UNCHANGED <<cmd, proc, ctxOf, watcher, nextPid, mine, lastEffective>>
       ELSE /\ proc' = [proc EXCEPT ![NewHandle] = "running"]
            /\ ctxOf' = [ctxOf EXCEPT ![NewHandle] = ScopeOf(t)]
            /\ cmd' = NewHandle
            /\ status' = TRUE
            /\ watcher' = [watcher EXCEPT ![NewHandle] = ArmedWatcher]
            /\ mine' = [mine EXCEPT ![t] = NewHandle]
            /\ nextPid' = nextPid + 1
            /\ logged' = [logged EXCEPT ![t] = "started"]
            /\ ret' = [ret EXCEPT ![t] = "ok"]
            /\ lastEffective' = "start"
    /\ mutexW' = NoHolder
    /\ pc' = [pc EXCEPT ![t] = "start_ret"]
    /\ UNCHANGED <<mutexR, reqDone, mainPc, monCancelled>>
    /\ UNCHANGED <<gpioVars, hubVars, facVars>>

\* s.mutex.Lock() of StopStream.
StopAcquire(t) ==
    /\ AppRunning
    /\ pc[t] = "want_stop"
    /\ MutexFree
    /\ mutexW' = t
    /\ pc' = [pc EXCEPT ![t] = "stop_cs"]
    /\ UNCHANGED <<status, cmd, mutexR, proc, ctxOf, reqDone, watcher, nextPid,
                   ret, logged, mine, mainPc, monCancelled, lastEffective>>
    /\ UNCHANGED <<gpioVars, hubVars, facVars>>

\* The body of StopStream under the mutex, and the deferred Unlock.
StopBody(t) ==
    /\ AppRunning
    /\ pc[t] = "stop_cs"
    /\ mutexW = t
    /\ IF NothingToStop
       THEN /\ logged' = [logged EXCEPT ![t] = "no_active_stream"]
            /\ ret' = [ret EXCEPT ![t] = "ok"]
            /\ UNCHANGED <<status, proc, lastEffective>>
       ELSE IF KillFails(cmd)
       THEN /\ logged' = [logged EXCEPT ![t] = "kill_failed"]
            /\ ret' = [ret EXCEPT ![t] = KillFailureResult]
            /\ UNCHANGED <<status, proc, lastEffective>>
       ELSE /\ proc' = KillEffect(cmd)
            /\ status' = FALSE
            /\ logged' = [logged EXCEPT ![t] = "stopped"]
            /\ ret' = [ret EXCEPT ![t] = "ok"]
            /\ lastEffective' = "stop"
    /\ mutexW' = NoHolder
    /\ pc' = [pc EXCEPT ![t] = "stop_ret"]
    /\ UNCHANGED <<cmd, mutexR, ctxOf, reqDone, watcher, nextPid, mine, mainPc, monCancelled>>
    /\ UNCHANGED <<gpioVars, hubVars, facVars>>

\* s.mutex.RLock() of IsStreaming.
IsStreamingAcquire(t) ==
    /\ AppRunning
    /\ pc[t] = "want_read"
    /\ mutexW = NoHolder
    /\ mutexR' = mutexR \cup {t}
    /\ pc' = [pc EXCEPT ![t] = "read_cs"]
    /\ UNCHANGED <<status, cmd, mutexW, proc, ctxOf, reqDone, watcher, nextPid,
                   ret, logged, mine, mainPc, monCancelled, lastEffective>>
    /\ UNCHANGED <<gpioVars, hubVars, facVars>>

\* The exit watcher: cmd.Wait() returns once the process has exited, whatever
\* the exit reason, and reaps it.
WatcherWait(p) ==
    /\ AppRunning
    /\ watcher[p] = "wait"
    /\ proc[p] = "zombie"
    /\ proc' = [proc EXCEPT ![p] = "reaped"]
    /\ watcher' = [watcher EXCEPT ![p] = "lock"]
    /\ UNCHANGED <<status, cmd, mutexW, mutexR, ctxOf, reqDone, nextPid,
                   pc, ret, logged, mine, mainPc, monCancelled, lastEffective>>
    /\ UNCHANGED <<gpioVars, hubVars, facVars>>

\* The exit watcher: s.mutex.Lock().
WatcherAcquire(p) ==
    /\ AppRunning
    /\ watcher[p] = "lock"
    /\ MutexFree
    /\ mutexW' = WatcherHolder
    /\ watcher' = [watcher EXCEPT ![p] = "cs"]
    /\ UNCHANGED <<status, cmd, mutexR, proc, ctxOf, reqDone, nextPid,
                   pc, ret, logged, mine, mainPc, monCancelled, lastEffective>>
    /\ UNCHANGED <<gpioVars, hubVars, facVars>>

\* The exit watcher: s.status = false; s.mutex.Unlock().
WatcherFinish(p) ==
    /\ AppRunning
    /\ watcher[p] = "cs"
    /\ mutexW = WatcherHolder
    /\ status' = StatusAfterExit
    /\ mutexW' = NoHolder
    /\ watcher' = [watcher EXCEPT ![p] = "done"]
    /\ UNCHANGED <<cmd, mutexR, proc, ctxOf, reqDone, nextPid,
                   pc, ret, logged, mine, mainPc, monCancelled, lastEffective>>
    /\ UNCHANGED <<gpioVars, hubVars, facVars>>

\* exec.CommandContext: once the scope is done, the goroutine cmd.Start armed
\* kills the process. It runs in the application, so only while main has not
\* returned.
CtxKill(p) ==
    /\ AppRunning
    /\ proc[p] = "running"
    /\ CtxDone(p)
    /\ proc' = KillEffect(p)
    /\ UNCHANGED <<status, cmd, mutexW, mutexR, ctxOf, reqDone, watcher, nextPid,
                   pc, ret, logged, mine, mainPc, monCancelled, lastEffective>>
    /\ UNCHANGED <<gpioVars, hubVars, facVars>>

\* ------------------------------------------------- the external process

\* The process exits on its own: a clean exit, a crash, a signal from outside.
ProcSelfExit(p) ==
    /\ proc[p] = "running"
    /\ proc' = [proc EXCEPT ![p] = "zombie"]
    /\ UNCHANGED <<status, cmd, mutexW, mutexR, ctxOf, reqDone, watcher, nextPid,
                   pc, ret, logged, mine, mainPc, monCancelled, lastEffective>>
    /\ UNCHANGED <<gpioVars, hubVars, facVars>>

\* The process dies of the SIGKILL it was sent.
ProcDie(p) ==
    /\ proc[p] = "killed"
    /\ proc' = [proc EXCEPT ![p] = "zombie"]
    /\ UNCHANGED <<status, cmd, mutexW, mutexR, ctxOf, reqDone, watcher, nextPid,
                   pc, ret, logged, mine, mainPc, monCancelled, lastEffective>>
    /\ UNCHANGED <<gpioVars, hubVars, facVars>>

\* ------------------------------------------------------------- callers

\* An HTTP request arrives: the start-stream handler creates the scope of the
\* request and calls facade.StartStream(ctx), the stop-stream handler calls
\* facade.StopStream(). srv.Shutdown stops the server accepting requests.
HandlerBegin(h, op) ==
    /\ mainPc = "serving"
    /\ pc[h] = "idle"
    /\ pc' = [pc EXCEPT ![h] = IF op = "start" THEN "want_start" ELSE "want_stop"]
    /\ UNCHANGED <<status, cmd, mutexW, mutexR, proc, ctxOf, reqDone, watcher, nextPid,
                   ret, logged, mine, mainPc, monCancelled, lastEffective>>
    /\ UNCHANGED <<gpioVars, hubVars, facVars>>

\* The handler returns its response; the deferred cancel() of a start-stream
\* request ends the scope the process was launched under.
HandlerReturn(h) ==
    /\ AppRunning
    /\ pc[h] \in {"start_ret", "stop_ret"}
    /\ pc' = [pc EXCEPT ![h] = "idle"]
    /\ reqDone' = IF mine[h] # NoPid THEN [reqDone EXCEPT ![mine[h]] = TRUE] ELSE reqDone
    /\ mine' = [mine EXCEPT ![h] = NoPid]
    /\ ret' = [ret EXCEPT ![h] = "none"]
    /\ logged' = [logged EXCEPT ![h] = "none"]
    /\ UNCHANGED <<status, cmd, mutexW, mutexR, proc, ctxOf, watcher, nextPid,
                   mainPc, monCancelled, lastEffective>>
    /\ published' = [published EXCEPT ![h] = <<>>]
    /\ UNCHANGED <<gpioVars, hubVars>>

\* context.WithTimeout(..., 10*time.Second): the scope of a request also ends
\* when the handler is still running after ten seconds.
RequestTimeout(h) ==
    /\ AppRunning
    /\ pc[h] = "start_ret"
    /\ mine[h] # NoPid
    /\ ~reqDone[mine[h]]
    /\ reqDone' = [reqDone EXCEPT ![mine[h]] = TRUE]
    /\ UNCHANGED <<status, cmd, mutexW, mutexR, proc, ctxOf, watcher, nextPid,
                   pc, ret, logged, mine, mainPc, monCancelled, lastEffective>>
    /\ UNCHANGED <<gpioVars, hubVars, facVars>>

\* MonitorButton invokes the callback of facade.MonitorGPIO, which begins with
\* f.IsStreaming().
CallbackBegin ==
    /\ AppRunning
    /\ pc[Gpio] = "idle"
    /\ pc' = [pc EXCEPT ![Gpio] = "want_read"]
    /\ UNCHANGED <<status, cmd, mutexW, mutexR, proc, ctxOf, reqDone, watcher, nextPid,
                   ret, logged, mine, mainPc, monCancelled, lastEffective>>
    /\ UNCHANGED <<gpioVars, hubVars, facVars>>

\* The callback: IsStreaming returns s.status and releases the read lock; the
\* callback goes on to StopStream if it read true, to StartStream(ctx) if not.
CallbackRead ==
    /\ AppRunning
    /\ pc[Gpio] = "read_cs"
    /\ Gpio \in mutexR
    /\ mutexR' = mutexR \ {Gpio}
    /\ pc' = [pc EXCEPT ![Gpio] = IF status THEN "want_stop" ELSE "want_start"]
    /\ UNCHANGED <<status, cmd, mutexW, proc, ctxOf, reqDone, watcher, nextPid,
                   ret, logged, mine, mainPc, monCancelled, lastEffective>>
    /\ UNCHANGED <<gpioVars, hubVars, facVars>>

\* The callback returns to the poll loop.
CallbackReturn ==
    /\ AppRunning
    /\ pc[Gpio] \in {"start_ret", "stop_ret"}
    /\ pc' = [pc EXCEPT ![Gpio] = "idle"]
    /\ mine' = [mine EXCEPT ![Gpio] = NoPid]
    /\ ret' = [ret EXCEPT ![Gpio] = "none"]
    /\ logged' = [logged EXCEPT ![Gpio] = "none"]
    /\ UNCHANGED <<status, cmd, mutexW, mutexR, proc, ctxOf, reqDone, watcher, nextPid,
                   mainPc, monCancelled, lastEffective>>
    /\ published' = [published EXCEPT ![Gpio] = <<>>]
    /\ UNCHANGED <<gpioVars, hubVars>>

\* ----------------------------------------------------------------- main

\* main receives SIGINT or SIGTERM and calls srv.Shutdown.
MainSignal ==
    /\ mainPc = "serving"
    /\ mainPc' = "shutdown"
    /\ UNCHANGED <<status, cmd, mutexW, mutexR, proc, ctxOf, reqDone, watcher, nextPid,
                   pc, ret, logged, mine, monCancelled, lastEffective>>
    /\ UNCHANGED <<gpioVars, hubVars, facVars>>

\* srv.Shutdown returns once every handler has returned; main cancels the
\* monitoring scope.
MainCancel ==
    /\ mainPc = "shutdown"
    /\ \A h \in Handlers : pc[h] = "idle"
    /\ monCancelled' = TRUE
    /\ mainPc' = "cancelled"
    /\ UNCHANGED <<status, cmd, mutexW, mutexR, proc, ctxOf, reqDone, watcher, nextPid,
                   pc, ret, logged, mine, lastEffective>>
    /\ UNCHANGED <<gpioVars, hubVars, facVars>>

\* srv.Shutdown gives up after its fifteen seconds with a handler still
\* running: logEntry.Fatalf exits the application.
MainFatal ==
    /\ mainPc = "shutdown"
    /\ \E h \in Handlers : pc[h] # "idle"
    /\ mainPc' = "exited"
    /\ UNCHANGED <<status, cmd, mutexW, mutexR, proc, ctxOf, reqDone, watcher, nextPid,
                   pc, ret, logged, mine, monCancelled, lastEffective>>
    /\ UNCHANGED <<gpioVars, hubVars, facVars>>

\* wg.Wait() returns (the server goroutine ended with srv.Shutdown) and main
\* returns: the application exits, and every goroutine with it.
MainExit ==
    /\ mainPc = "cancelled"
    /\ mainPc' = "exited"
    /\ UNCHANGED <<status, cmd, mutexW, mutexR, proc, ctxOf, reqDone, watcher, nextPid,
                   pc, ret, logged, mine, monCancelled, lastEffective>>
    /\ UNCHANGED <<gpioVars, hubVars, facVars>>

\* ------------------------------------------------------- MonitorButton

\* A loop that never restarts the settling period.
SettlingNeverRestarts(current, t) == lastDebounce

\* `if currentState != lastState { lastDebounce = time.Now() }`
DebounceAfterRead(current, t) == IF current # lastState THEN t ELSE lastDebounce

\* `if time.Since(lastDebounce) > g.debounce { if currentState != lastState {`
Confirms(current, t) ==
    /\ t - DebounceAfterRead(current, t) > DebounceMs
    /\ current # lastState

\* History of the input, for the claims about its shape. A clean press is a
\* level that read High for longer than the window and then reads Low.
ShapeAfterRead(current) ==
    IF shape = "start" THEN (IF current = High THEN "released" ELSE "other")
    ELSE IF shape = "released" /\ current = High THEN "released"
    ELSE IF shape = "released" /\ current = Low /\ heldMs > DebounceMs THEN "pressed"
    ELSE IF shape = "pressed" /\ current = Low THEN "pressed"
    ELSE "other"

\* History of the input: how long the level just read has been read without a
\* change (it stops counting at the end of the run).
HeldAfterRead(current) ==
    IF shape # "start" /\ current = level
    THEN (IF heldMs < MaxTicks * TickMs THEN heldMs + TickMs ELSE heldMs)
    ELSE 0

\* No level of the input has stayed for longer than the window yet.
NoLevel == "none"

\* A loop that goes on selecting after `return`.
SelectsAfterReturn == TRUE

\* The goroutine is in the `for { select {` of MonitorButton: it has not returned.
AtSelect == monPc = "polling"

\* A receive that leaves the tick in the channel.
TickLeftInChannel == TRUE

\* `case <-ticker.C`: the receive empties the channel, which holds one tick.
TickAfterReceive == FALSE

\* A case of the select is ready: the loop is not blocked.
LoopReady == AtSelect /\ (tickPending \/ monCancelled)

\* time.NewTicker(10 * time.Millisecond): ten milliseconds pass and the ticker
\* sends a tick on ticker.C. The loop takes a ready case of its select in less
\* than one tick period (a pass without a callback reads the pin and the clock),
\* so time passes only while the loop is blocked in the select.
TickerFire ==
    /\ monPc = "polling"
    /\ ~LoopReady
    /\ now < MaxTicks * TickMs
    /\ now' = now + TickMs
    /\ tickPending' = TRUE
    /\ UNCHANGED <<level, lastState, lastDebounce, callbacks, monPc, shape, heldMs,
                   confirmed, presses, ticksAfterCancel>>
    /\ UNCHANGED <<supVars, hubVars, facVars>>

\* One pass of the loop through `case <-ticker.C`: the pin is read, and the
\* callback runs inside the pass when a press is confirmed. With the scope done
\* and a tick in the channel, select takes either case.
PollTick(current) ==
    /\ AppRunning
    /\ AtSelect
    /\ tickPending
    /\ tickPending' = TickAfterReceive
    /\ level' = current
    /\ lastDebounce' = DebounceAfterRead(current, now)
    /\ lastState' = IF Confirms(current, now) THEN current ELSE lastState
    /\ callbacks' = IF Confirms(current, now) /\ current = Low
                    THEN callbacks + 1 ELSE callbacks
    /\ shape' = ShapeAfterRead(current)
    /\ heldMs' = HeldAfterRead(current)
    /\ confirmed' = IF HeldAfterRead(current) > DebounceMs THEN current ELSE confirmed
    /\ presses' = IF HeldAfterRead(current) > DebounceMs /\ current = Low /\ confirmed = High
                  THEN presses + 1 ELSE presses
    /\ ticksAfterCancel' = IF monCancelled /\ ticksAfterCancel < 2
                           THEN ticksAfterCancel + 1 ELSE ticksAfterCancel
    /\ UNCHANGED <<now, monPc>>
    /\ UNCHANGED <<supVars, hubVars, facVars>>

\* `case <-ctx.Done(): return`
MonitorReturn ==
    /\ AppRunning
    /\ AtSelect
    /\ monCancelled
    /\ monPc' = "returned"
    /\ UNCHANGED <<now, level, lastState, lastDebounce, callbacks, shape, heldMs,
                   tickPending, confirmed, presses, ticksAfterCancel>>
    /\ UNCHANGED <<supVars, hubVars, facVars>>

\* ------------------------------------------- WebSocketManagerImpl

\* A Lock that does not wait for the holders of the read lock.
IgnoresReaders == hubW = NoConn

\* wm.mutex.Lock(): no goroutine holds the mutex, for writing or for reading.
HubFreeForWriter == hubW = NoConn /\ hubR = {}

\* An addClient that replaces the map.
OnlyLastClient(c) == {c}

\* addClient: `wm.clients[conn] = true`.
ClientsAfterAdd(c) == clients \cup {c}

\* removeClient: `if _, exists := wm.clients[conn]; exists { delete(wm.clients, conn) }`.
ClientsAfterRemove(c) == IF c \in clients THEN clients \ {c} ELSE clients

\* A broadcast that logs the failed write and keeps the client.
FailedClientKept(c) == clients

\* BroadcastMessage: `delete(wm.clients, client)` after the failed write.
ClientsAfterFailure(c) == clients \ {c}

\* A range over every connection ever accepted.
UnvisitedOfAll(b) == {c \in Conns : connPc[c] # "none"} \ visited[b]

\* `for client := range wm.clients`: the keys the range can still produce. An
\* entry removed before the range reaches it is not produced.
Unvisited(b) == clients \ visited[b]

\* A range that ends after the first key.
StopsAfterFirst(b) == visited[b] # {}

\* `for client := range wm.clients`: the range has produced every key.
PassDone(b) == clients \ visited[b] = {}

\* `delete(wm.clients, client)` is done under the read lock: another broadcast
\* may be at the map at the same time, advancing its range or deleting.
MapRace(b) == \E o \in hubR \ {b} : pubPc[o] \in {"iter", "failed"}

\* The connections the write of the current or last pass of a broadcast has
\* failed on: `if err != nil` after client.WriteMessage.
FailedInPass(b) ==
    (visited[b] \ delivered[b]) \ (IF pubPc[b] = "write" THEN {cur[b]} ELSE {})

\* The messages facade.StartStream and facade.StopStream broadcast.
StreamStarted == "Stream started"
StreamStopped == "Stream stopped"

\* The broadcast a goroutine makes through the facade, and the goroutine a
\* broadcast belongs to.
PubOf(t) == IF t = Gpio THEN "b2" ELSE "b1"
OwnerOf(b) == CHOOSE t \in Threads : PubOf(t) = b

\* The goroutine is inside facade.StartStream or facade.StopStream, the call
\* of the streamer has returned.
InFacadeCall(t) == pc[t] \in {"start_ret", "stop_ret"}

\* f.BroadcastMessage("Stream started") / f.BroadcastMessage("Stream stopped").
MessageOf(t) == IF pc[t] = "start_ret" THEN StreamStarted ELSE StreamStopped

\* History: the messages a connection was sent that are kept.
MaxInbox == 2

\* History: the message of a facade call is written to the connection.
InboxAfterWrite(b) ==
    IF published[OwnerOf(b)] = <<>>
    THEN inbox
    ELSE [inbox EXCEPT ![cur[b]] =
             IF Len(@) < MaxInbox
             THEN Append(@, published[OwnerOf(b)][Len(published[OwnerOf(b)])])
             ELSE Append(Tail(@), published[OwnerOf(b)][Len(published[OwnerOf(b)])])]

\* client.WriteMessage returns: the connection takes the bytes, or it is
\* broken or closed and the write fails. No write deadline is set (the
\* deadlines of the server end when the connection is hijacked), so a write to
\* a peer that has stopped reading blocks.
WriteReturns(b) == broken[cur[b]] \/ ~stalled[cur[b]]

\* HandleWebSocket: wm.upgrader.Upgrade succeeds for a new connection.
Accept(c) ==
    /\ ~hubFatal
    /\ connPc[c] = "none"
    /\ \A d \in Conns : d < c => connPc[d] # "none"
    /\ connPc' = [connPc EXCEPT ![c] = "want_add"]
    /\ UNCHANGED <<clients, hubW, hubR, broken, pubPc, visited, cur, delivered,
                   atStart, failedOnce, retried, hubFatal>>
    /\ UNCHANGED <<stalled, inbox>>
    /\ UNCHANGED <<supVars, gpioVars, facVars>>

\* addClient: wm.mutex.Lock().
AddAcquire(c) ==
    /\ ~hubFatal
    /\ connPc[c] = "want_add"
    /\ HubFreeForWriter
    /\ hubW' = c
    /\ connPc' = [connPc EXCEPT ![c] = "add_cs"]
    /\ UNCHANGED <<clients, hubR, broken, pubPc, visited, cur, delivered,
                   atStart, failedOnce, retried, hubFatal>>
    /\ UNCHANGED <<stalled, inbox>>
    /\ UNCHANGED <<supVars, gpioVars, facVars>>

\* addClient: the body and the deferred Unlock; HandleWebSocket goes on to its
\* read loop.
AddBody(c) ==
    /\ ~hubFatal
    /\ connPc[c] = "add_cs"
    /\ hubW = c
    /\ clients' = ClientsAfterAdd(c)
    /\ hubW' = NoConn
    /\ connPc' = [connPc EXCEPT ![c] = "reading"]
    /\ UNCHANGED <<hubR, broken, pubPc, visited, cur, delivered,
                   atStart, failedOnce, retried, hubFatal>>
    /\ UNCHANGED <<stalled, inbox>>
    /\ UNCHANGED <<supVars, gpioVars, facVars>>

\* The peer of a connection goes away or the network fails: from now on a
\* write to the connection fails.
ConnBreaks(c) ==
    /\ ~hubFatal
    /\ connPc[c] \in {"want_add", "add_cs", "reading"}
    /\ ~broken[c]
    /\ broken' = [broken EXCEPT ![c] = TRUE]
    /\ UNCHANGED <<clients, hubW, hubR, connPc, pubPc, visited, cur, delivered,
                   atStart, failedOnce, retried, hubFatal>>
    /\ UNCHANGED <<stalled, inbox>>
    /\ UNCHANGED <<supVars, gpioVars, facVars>>

\* The peer of a connection stops reading and the buffers of the connection
\* fill: from now on a write to the connection blocks.
ConnStalls(c) ==
    /\ ~hubFatal
    /\ connPc[c] \in {"want_add", "add_cs", "reading"}
    /\ ~broken[c]
    /\ ~stalled[c]
    /\ stalled' = [stalled EXCEPT ![c] = TRUE]
    /\ UNCHANGED <<clients, hubW, hubR, connPc, broken, pubPc, visited, cur, delivered,
                   atStart, failedOnce, retried, hubFatal, inbox>>
    /\ UNCHANGED <<supVars, gpioVars, facVars>>

\* HandleWebSocket: conn.ReadMessage returns an error (the peer has closed, the
\* connection is broken or was closed by a broadcast) and the read loop ends.
ReadFails(c) ==
    /\ ~hubFatal
    /\ connPc[c] = "reading"
    /\ connPc' = [connPc EXCEPT ![c] = "want_remove"]
    /\ UNCHANGED <<clients, hubW, hubR, broken, pubPc, visited, cur, delivered,
                   atStart, failedOnce, retried, hubFatal>>
    /\ UNCHANGED <<stalled, inbox>>
    /\ UNCHANGED <<supVars, gpioVars, facVars>>

\* removeClient (deferred by HandleWebSocket): wm.mutex.Lock().
RemoveAcquire(c) ==
    /\ ~hubFatal
    /\ connPc[c] = "want_remove"
    /\ HubFreeForWriter
    /\ hubW' = c
    /\ connPc' = [connPc EXCEPT ![c] = "remove_cs"]
    /\ UNCHANGED <<clients, hubR, broken, pubPc, visited, cur, delivered,
                   atStart, failedOnce, retried, hubFatal>>
    /\ UNCHANGED <<stalled, inbox>>
    /\ UNCHANGED <<supVars, gpioVars, facVars>>

\* removeClient: the body and the deferred Unlock; then the deferred
\* conn.Close() of HandleWebSocket, and the goroutine of the connection ends.
RemoveBody(c) ==
    /\ ~hubFatal
    /\ connPc[c] = "remove_cs"
    /\ hubW = c
    /\ clients' = ClientsAfterRemove(c)
    /\ hubW' = NoConn
    /\ broken' = [broken EXCEPT ![c] = TRUE]
    /\ connPc' = [connPc EXCEPT ![c] = "ended"]
    /\ UNCHANGED <<hubR, pubPc, visited, cur, delivered,
                   atStart, failedOnce, retried, hubFatal>>
    /\ UNCHANGED <<stalled, inbox>>
    /\ UNCHANGED <<supVars, gpioVars, facVars>>

\* BroadcastMessage: wm.mutex.RLock(), and the range begins.
PublishAcquire(b) ==
    /\ ~hubFatal
    /\ pubPc[b] = "idle"
    /\ hubW = NoConn
    /\ hubR' = hubR \cup {b}
    /\ pubPc' = [pubPc EXCEPT ![b] = "iter"]
    /\ visited' = [visited EXCEPT ![b] = {}]
    /\ delivered' = [delivered EXCEPT ![b] = {}]
    /\ atStart' = [atStart EXCEPT ![b] = clients]
    /\ UNCHANGED <<clients, hubW, connPc, broken, cur, failedOnce, retried, hubFatal>>
    /\ UNCHANGED <<stalled, inbox>>
    /\ published' = IF InFacadeCall(OwnerOf(b))
                    THEN [published EXCEPT ![OwnerOf(b)] = Append(@, MessageOf(OwnerOf(b)))]
                    ELSE published
    /\ UNCHANGED <<supVars, gpioVars>>

\* BroadcastMessage: the range produces the next key.
PublishNext(b, c) ==
    /\ ~hubFatal
    /\ pubPc[b] = "iter"
    /\ c \in Unvisited(b)
    /\ cur' = [cur EXCEPT ![b] = c]
    /\ visited' = [visited EXCEPT ![b] = @ \cup {c}]
    /\ pubPc' = [pubPc EXCEPT ![b] = "write"]
    /\ UNCHANGED <<clients, hubW, hubR, connPc, broken, delivered,
                   atStart, failedOnce, retried, hubFatal>>
    /\ UNCHANGED <<stalled, inbox>>
    /\ UNCHANGED <<supVars, gpioVars, facVars>>

\* BroadcastMessage: client.WriteMessage and the test of its error.
PublishWrite(b) ==
    /\ ~hubFatal
    /\ pubPc[b] = "write"
    /\ WriteReturns(b)
    /\ retried' = (retried \/ cur[b] \in failedOnce)
    /\ IF broken[cur[b]]
       THEN /\ failedOnce' = failedOnce \cup {cur[b]}
            /\ pubPc' = [pubPc EXCEPT ![b] = "failed"]
            /\ UNCHANGED <<delivered, cur, inbox>>
       ELSE /\ delivered' = [delivered EXCEPT ![b] = @ \cup {cur[b]}]
            /\ pubPc' = [pubPc EXCEPT ![b] = "iter"]
            /\ cur' = [cur EXCEPT ![b] = NoConn]
            /\ inbox' = InboxAfterWrite(b)
            /\ UNCHANGED failedOnce
    /\ UNCHANGED <<clients, hubW, hubR, connPc, broken, visited, atStart, hubFatal>>
    /\ UNCHANGED stalled
    /\ UNCHANGED <<supVars, gpioVars, facVars>>

\* BroadcastMessage after a failed write: client.Close() and
\* delete(wm.clients, client). When another broadcast is at the map at the same
\* time, the Go runtime may detect the concurrent access and stop the program
\* (fatal error: concurrent map iteration and map write); fatal is that outcome.
PublishRemove(b, fatal) ==
    /\ ~hubFatal
    /\ pubPc[b] = "failed"
    /\ fatal => MapRace(b)
    /\ broken' = [broken EXCEPT ![cur[b]] = TRUE]
    /\ IF fatal
       THEN /\ hubFatal' = TRUE
            /\ UNCHANGED <<clients, pubPc, cur>>
       ELSE /\ clients' = ClientsAfterFailure(cur[b])
            /\ pubPc' = [pubPc EXCEPT ![b] = "iter"]
            /\ cur' = [cur EXCEPT ![b] = NoConn]
            /\ UNCHANGED hubFatal
    /\ UNCHANGED <<hubW, hubR, connPc, visited, delivered, atStart, failedOnce, retried>>
    /\ UNCHANGED <<stalled, inbox>>
    /\ UNCHANGED <<supVars, gpioVars, facVars>>

\* BroadcastMessage: the range ends, the deferred RUnlock runs and the call returns.
PublishEnd(b) ==
    /\ ~hubFatal
    /\ pubPc[b] = "iter"
    /\ PassDone(b)
    /\ hubR' = hubR \ {b}
    /\ pubPc' = [pubPc EXCEPT ![b] = "idle"]
    /\ UNCHANGED <<clients, hubW, connPc, broken, visited, cur, delivered,
                   atStart, failedOnce, retried, hubFatal>>
    /\ UNCHANGED <<stalled, inbox>>
    /\ UNCHANGED <<supVars, gpioVars, facVars>>

\* ------------------------------------------------------------ facadeImpl

\* A facade that broadcasts whatever the streamer returned.
BroadcastsAlways(t) == InFacadeCall(t) /\ published[t] = <<>>

\* A facade that broadcasts at any time, whether a call is in progress or not.
BroadcastsUnasked(t) == published[t] = <<>>

\* A facade that broadcasts from inside the critical section of the streamer.
BroadcastsUnderLock(t) == pc[t] \in {"start_cs", "stop_cs"}

\* facade.StartStream / StopStream: `if err != nil { ... return err }`, then
\* f.BroadcastMessage(...): the call has its broadcast to make.
NeedsPublish(t) == InFacadeCall(t) /\ ret[t] = "ok" /\ published[t] = <<>>

\* A facade that returns without waiting for its broadcast.
ReturnsAtOnce(t) == InFacadeCall(t)

\* facade.StartStream / StopStream reaches its return: the streamer returned
\* an error, or f.BroadcastMessage has returned.
FacadeDone(t) == InFacadeCall(t) /\ ~NeedsPublish(t) /\ pubPc[PubOf(t)] = "idle"

\* facade.StartStream / StopStream: f.BroadcastMessage(...) is called and
\* takes the read lock of the hub.
FacadePublish(t) == NeedsPublish(t) /\ PublishAcquire(PubOf(t))

\* facade.StartStream / StopStream returns, and the HTTP handler with it.
FacadeReturn(h) == FacadeDone(h) /\ HandlerReturn(h)

\* facade.StartStream / StopStream returns to the callback of MonitorGPIO, and
\* the callback returns.
FacadeCallbackReturn == FacadeDone(Gpio) /\ CallbackReturn

\* ------------------------------------------------------- specifications

Init ==
    /\ status = FALSE
    /\ cmd = NoPid
    /\ mutexW = NoHolder
    /\ mutexR = {}
    /\ proc = [p \in Pids |-> "unborn"]
    /\ ctxOf = [p \in Pids |-> "none"]
    /\ reqDone = [p \in Pids |-> FALSE]
    /\ watcher = [p \in Pids |-> "none"]
    /\ nextPid = 1
    /\ pc = [t \in Threads |-> "idle"]
    /\ ret = [t \in Threads |-> "none"]
    /\ logged = [t \in Threads |-> "none"]
    /\ mine = [t \in Threads |-> NoPid]
    /\ mainPc = "serving"
    /\ monCancelled = FALSE
    /\ lastEffective = "none"
    /\ now = 0
    /\ level = High
    /\ lastState = ZeroState
    /\ lastDebounce = ZeroTime
    /\ callbacks = 0
    /\ monPc = "polling"
    /\ shape = "start"
    /\ heldMs = 0
    /\ tickPending = FALSE
    /\ confirmed = NoLevel
    /\ presses = 0
    /\ ticksAfterCancel = 0
    /\ clients = {}
    /\ hubW = NoConn
    /\ hubR = {}
    /\ connPc = [c \in Conns |-> "none"]
    /\ broken = [c \in Conns |-> FALSE]
    /\ pubPc = [b \in Publishers |-> "idle"]
    /\ visited = [b \in Publishers |-> {}]
    /\ cur = [b \in Publishers |-> NoConn]
    /\ delivered = [b \in Publishers |-> {}]
    /\ atStart = [b \in Publishers |-> {}]
    /\ failedOnce = {}
    /\ retried = FALSE
    /\ hubFatal = FALSE
    /\ stalled = [c \in Conns |-> FALSE]
    /\ inbox = [c \in Conns |-> <<>>]
    /\ published = [t \in Threads |-> <<>>]

\* What the goroutines of the application and the processes do while main
\* serves: the callers of the supervisor, the watchers, the processes.
Serve ==
    \/ \E h \in Handlers : \E op \in {"start", "stop"} : HandlerBegin(h, op)
    \/ \E h \in Handlers : HandlerReturn(h)
    \/ \E h \in Handlers : RequestTimeout(h)
    \/ CallbackBegin
    \/ CallbackRead
    \/ CallbackReturn
    \/ \E t \in Threads : StartAcquire(t)
    \/ \E t \in Threads : \E launchOk \in BOOLEAN : StartBody(t, launchOk)
    \/ \E t \in Threads : StopAcquire(t)
    \/ \E t \in Threads : StopBody(t)
    \/ \E t \in Threads : IsStreamingAcquire(t)
    \/ \E p \in Pids : WatcherWait(p)
    \/ \E p \in Pids : WatcherAcquire(p)
    \/ \E p \in Pids : WatcherFinish(p)
    \/ \E p \in Pids : CtxKill(p)
    \/ \E p \in Pids : ProcSelfExit(p)
    \/ \E p \in Pids : ProcDie(p)

\* main's shutdown sequence.
Shutdown ==
    \/ MainSignal
    \/ MainCancel
    \/ MainFatal
    \/ MainExit

\* The supervisor with its callers, its watchers and the processes, main serving.
Next == Serve

Spec == Init /\ [][Next]_vars

\* The same with main's shutdown sequence.
ShutdownNext == Serve \/ Shutdown

SpecShutdown == Init /\ [][ShutdownNext]_vars

\* The debounce loop with the pin and main's shutdown of the monitoring scope.
GpioNext ==
    \/ TickerFire
    \/ \E current \in {Low, High} : PollTick(current)
    \/ MonitorReturn
    \/ MainSignal
    \/ MainCancel
    \/ MainExit

SpecGpio == Init /\ [][GpioNext]_vars

\* The same with the scheduling of the Go runtime: the loop goroutine runs
\* while a case of its select is ready and main has not returned.
FairGpio == SpecGpio /\ WF_vars(MonitorReturn \/ \E current \in {Low, High} : PollTick(current))

\* The hub: the goroutines of the connections, the broadcasts and the peers.
HubNext ==
    \/ \E c \in Conns : Accept(c)
    \/ \E c \in Conns : AddAcquire(c)
    \/ \E c \in Conns : AddBody(c)
    \/ \E c \in Conns : ConnBreaks(c)
    \/ \E c \in Conns : ReadFails(c)
    \/ \E c \in Conns : RemoveAcquire(c)
    \/ \E c \in Conns : RemoveBody(c)
    \/ \E b \in Publishers : PublishAcquire(b)
    \/ \E b \in Publishers : \E c \in Conns : PublishNext(b, c)
    \/ \E b \in Publishers : PublishWrite(b)
    \/ \E b \in Publishers : \E fatal \in BOOLEAN : PublishRemove(b, fatal)
    \/ \E b \in Publishers : PublishEnd(b)

SpecHub == Init /\ [][HubNext]_vars

\* The hub with peers that stop reading.
StallNext ==
    \/ HubNext
    \/ \E c \in Conns : ConnStalls(c)

SpecHubStall == Init /\ [][StallNext]_vars

\* A step of the goroutine that runs BroadcastMessage.
PublishStep(b) ==
    \/ \E c \in Conns : PublishNext(b, c)
    \/ PublishWrite(b)
    \/ \E fatal \in BOOLEAN : PublishRemove(b, fatal)
    \/ PublishEnd(b)

\* The same with the scheduling of the Go runtime: a goroutine inside
\* BroadcastMessage runs whenever it is not blocked. Nothing obliges a peer to
\* read, to close or to break its connection.
FairHubStall == SpecHubStall /\ \A b \in Publishers : WF_vars(PublishStep(b))

\* Calls issued one at a time, each returning before the next begins: button
\* presses (the callback starts or stops under the monitoring scope, which
\* stays open) and stop-stream requests. Every launch succeeds and no process
\* exits on its own; the watchers run whenever they are scheduled.
\* Start-stream requests are left out: the scope of a request ends with it.
AllIdle == \A t \in Threads : pc[t] = "idle"

SerialNext ==
    \/ AllIdle /\ CallbackBegin
    \/ AllIdle /\ \E h \in Handlers : HandlerBegin(h, "stop")
    \/ \E h \in Handlers : HandlerReturn(h)
    \/ CallbackRead
    \/ CallbackReturn
    \/ \E t \in Threads : StartAcquire(t)
    \/ \E t \in Threads : StartBody(t, TRUE)
    \/ \E t \in Threads : StopAcquire(t)
    \/ \E t \in Threads : StopBody(t)
    \/ \E t \in Threads : IsStreamingAcquire(t)
    \/ \E p \in Pids : WatcherWait(p)
    \/ \E p \in Pids : WatcherAcquire(p)
    \/ \E p \in Pids : WatcherFinish(p)
    \/ \E p \in Pids : ProcDie(p)

SpecSerial == Init /\ [][SerialNext]_vars

\* One start-stream or stop-stream request at a time and no button: the
\* handler, the watchers, the processes and the scopes of the requests.
LiveNext ==
    \/ \E h \in Handlers : \E op \in {"start", "stop"} : HandlerBegin(h, op)
    \/ \E h \in Handlers : HandlerReturn(h)
    \/ \E h \in Handlers : RequestTimeout(h)
    \/ \E h \in Handlers : StartAcquire(h)
    \/ \E h \in Handlers : \E launchOk \in BOOLEAN : StartBody(h, launchOk)
    \/ \E h \in Handlers : StopAcquire(h)
    \/ \E h \in Handlers : StopBody(h)
    \/ \E p \in Pids : WatcherWait(p)
    \/ \E p \in Pids : WatcherAcquire(p)
    \/ \E p \in Pids : WatcherFinish(p)
    \/ \E p \in Pids : CtxKill(p)
    \/ \E p \in Pids : ProcSelfExit(p)
    \/ \E p \in Pids : ProcDie(p)

\* The scheduling the Go runtime gives: a runnable goroutine runs, a goroutine
\* blocked in Lock gets the mutex (sync.RWMutex hands it over to a starving
\* waiter), a process that was sent SIGKILL dies. Nothing obliges a request to
\* arrive or a process to exit on its own.
Fairness ==
    /\ \A h \in Handlers : WF_vars(\E launchOk \in BOOLEAN : StartBody(h, launchOk))
    /\ \A h \in Handlers : WF_vars(StopBody(h))
    /\ \A h \in Handlers : WF_vars(HandlerReturn(h))
    /\ \A p \in Pids : WF_vars(WatcherWait(p))
    /\ \A p \in Pids : SF_vars(WatcherAcquire(p))
    /\ \A p \in Pids : WF_vars(WatcherFinish(p))
    /\ \A p \in Pids : WF_vars(CtxKill(p))
    /\ \A p \in Pids : WF_vars(ProcDie(p))

FairSpec == Init /\ [][LiveNext]_vars /\ Fairness

\* The facade with the hub: start-stream and stop-stream requests, one at a
\* time, each calling the streamer and then broadcasting to the clients of the
\* hub; the watchers, the processes, the scopes of the requests, and the
\* connections, which are accepted and may break.
FacadeNext ==
    \/ \E h \in Handlers : \E op \in {"start", "stop"} : HandlerBegin(h, op)
    \/ \E h \in Handlers : StartAcquire(h)
    \/ \E h \in Handlers : \E launchOk \in BOOLEAN : StartBody(h, launchOk)
    \/ \E h \in Handlers : StopAcquire(h)
    \/ \E h \in Handlers : StopBody(h)
    \/ \E h \in Handlers : FacadePublish(h)
    \/ \E h \in Handlers : PublishStep(PubOf(h))
    \/ \E h \in Handlers : FacadeReturn(h)
    \/ \E h \in Handlers : RequestTimeout(h)
    \/ \E p \in Pids : WatcherWait(p)
    \/ \E p \in Pids : WatcherAcquire(p)
    \/ \E p \in Pids : WatcherFinish(p)
    \/ \E p \in Pids : CtxKill(p)
    \/ \E p \in Pids : ProcSelfExit(p)
    \/ \E p \in Pids : ProcDie(p)
    \/ \E c \in Conns : Accept(c)
    \/ \E c \in Conns : AddAcquire(c)
    \/ \E c \in Conns : AddBody(c)
    \/ \E c \in Conns : ConnBreaks(c)

SpecFacade == Init /\ [][FacadeNext]_vars

\* The end-to-end scenario: a start-stream request whose launch succeeds, and
\* after it stop-stream requests until one has stopped the stream; no process
\* exits on its own. The connections come, break and go as they will, and
\* their peers read what they are sent.
ScenarioNext ==
    \/ \E h \in Handlers : lastEffective = "none" /\ HandlerBegin(h, "start")
    \/ \E h \in Handlers : lastEffective = "start" /\ HandlerBegin(h, "stop")
    \/ \E h \in Handlers : StartAcquire(h)
    \/ \E h \in Handlers : StartBody(h, TRUE)
    \/ \E h \in Handlers : StopAcquire(h)
    \/ \E h \in Handlers : StopBody(h)
    \/ \E h \in Handlers : FacadePublish(h)
    \/ \E h \in Handlers : PublishStep(PubOf(h))
    \/ \E h \in Handlers : FacadeReturn(h)
    \/ \E h \in Handlers : RequestTimeout(h)
    \/ \E p \in Pids : WatcherWait(p)
    \/ \E p \in Pids : WatcherAcquire(p)
    \/ \E p \in Pids : WatcherFinish(p)
    \/ \E p \in Pids : CtxKill(p)
    \/ \E p \in Pids : ProcDie(p)
    \/ \E c \in Conns : Accept(c)
    \/ \E c \in Conns : AddAcquire(c)
    \/ \E c \in Conns : AddBody(c)
    \/ \E c \in Conns : ConnBreaks(c)
    \/ \E c \in Conns : ReadFails(c)
    \/ \E c \in Conns : RemoveAcquire(c)
    \/ \E c \in Conns : RemoveBody(c)

SpecScenario == Init /\ [][ScenarioNext]_vars

\* The scheduling the Go runtime gives: the goroutine of a request runs
\* whenever it is not blocked, a goroutine blocked in Lock or RLock gets the
\* mutex, a goroutine inside addClient or removeClient runs to its Unlock.
ScenarioFairness ==
    /\ \A h \in Handlers : SF_vars(StartAcquire(h))
    /\ \A h \in Handlers : WF_vars(StartBody(h, TRUE))
    /\ \A h \in Handlers : SF_vars(StopAcquire(h))
    /\ \A h \in Handlers : WF_vars(StopBody(h))
    /\ \A h \in Handlers : SF_vars(FacadePublish(h))
    /\ \A h \in Handlers : WF_vars(PublishStep(PubOf(h)))
    /\ \A h \in Handlers : WF_vars(FacadeReturn(h))
    /\ \A p \in Pids : WF_vars(WatcherFinish(p))
    /\ \A c \in Conns : WF_vars(AddBody(c))
    /\ \A c \in Conns : WF_vars(RemoveBody(c))

FairScenario == SpecScenario /\ ScenarioFairness

\* Two callers of the facade that race: a start-stream request and the
\* callback of the button, each in its own goroutine and each beginning
\* before any launch; every launch succeeds and no process exits on its own.
\* The connections come, break and go as they will, and their peers read what
\* they are sent.
RaceNext ==
    \/ \E h \in Handlers : lastEffective = "none" /\ HandlerBegin(h, "start")
    \/ lastEffective = "none" /\ CallbackBegin
    \/ CallbackRead
    \/ \E t \in Threads : IsStreamingAcquire(t)
    \/ \E t \in Threads : StartAcquire(t)
    \/ \E t \in Threads : StartBody(t, TRUE)
    \/ \E t \in Threads : StopAcquire(t)
    \/ \E t \in Threads : StopBody(t)
    \/ \E t \in Threads : FacadePublish(t)
    \/ \E t \in Threads : PublishStep(PubOf(t))
    \/ \E h \in Handlers : FacadeReturn(h)
    \/ FacadeCallbackReturn
    \/ \E p \in Pids : WatcherWait(p)
    \/ \E p \in Pids : WatcherAcquire(p)
    \/ \E p \in Pids : WatcherFinish(p)
    \/ \E p \in Pids : CtxKill(p)
    \/ \E p \in Pids : ProcDie(p)
    \/ \E c \in Conns : Accept(c)
    \/ \E c \in Conns : AddAcquire(c)
    \/ \E c \in Conns : AddBody(c)
    \/ \E c \in Conns : ConnBreaks(c)
    \/ \E c \in Conns : ReadFails(c)
    \/ \E c \in Conns : RemoveAcquire(c)
    \/ \E c \in Conns : RemoveBody(c)

SpecRace == Init /\ [][RaceNext]_vars

\* The hub with peers that stop reading, under the scheduling of the Go
\* runtime for every goroutine of the hub: a broadcast runs whenever it is not
\* blocked, a goroutine blocked in Lock gets the mutex once it is free often
\* enough (a waiting writer holds back new readers), and a goroutine inside
\* addClient or removeClient runs to its Unlock.
FairHubConns ==
    /\ SpecHubStall
    /\ \A b \in Publishers : WF_vars(PublishStep(b))
    /\ \A c \in Conns : SF_vars(AddAcquire(c))
    /\ \A c \in Conns : WF_vars(AddBody(c))
    /\ \A c \in Conns : SF_vars(RemoveAcquire(c))
    /\ \A c \in Conns : WF_vars(RemoveBody(c))

\* ------------------------------------------------------------- claims

\* C1: in every reachable state at most one process launched by the supervisor
\* is alive, that is launched and not yet exited.
AtMostOneLiveProcess == Cardinality({p \in Pids : Alive(p)}) <= 1

\* C2: in every reachable state status is true if and only if the stored
\* handle refers to a launched process that has not yet exited.
RunningIffHandleLive == status <=> (cmd # NoPid /\ Alive(cmd))

\* C2, as amended: in every reachable state, if status is true then the stored
\* handle refers to a launched process whose exit watcher has not yet recorded
\* an exit (the process itself may already have exited).
RunningImpliesExitNotRecorded ==
    status => (cmd # NoPid /\ Launched(cmd) /\ watcher[cmd] \in {"wait", "lock", "cs"})

\* C2, witness: status is still true although the process of the handle has
\* exited and been reaped; its watcher waits for the mutex.
RunningWithExitedProcess ==
    status /\ cmd # NoPid /\ proc[cmd] = "reaped" /\ watcher[cmd] = "lock"

\* C3: after serial Start and Stop calls, with every launch succeeding and no
\* process exiting on its own, IsStreaming() is true exactly when the last call
\* that was not a no-op was a Start.
SerialCallsLeaveLastTransition ==
    AllIdle => (status <=> lastEffective = "start")

\* C4: every successful launch arms the watcher of that process, and once a
\* process has exited, for whatever reason, its watcher completes and status
\* is set to false; no Stop call is needed for that.
ExitIsEventuallyObserved ==
    /\ [](\A p \in Pids : Launched(p) <=> watcher[p] # "none")
    /\ \A p \in Pids : Exited(p) ~> (watcher[p] = "done")
    /\ \A p \in Pids : (status /\ cmd = p /\ Exited(p)) ~> ~status

\* C4, witness: the first process exited on its own (the request that launched
\* it has not returned, its scope is open, and no Stop took effect), its
\* watcher has completed and status is false.
SelfExitObserved ==
    /\ nextPid = 2
    /\ watcher[1] = "done"
    /\ ~reqDone[1]
    /\ lastEffective = "start"
    /\ cmd = 1
    /\ ~status

\* C5: a Start that finds status true returns success, launches nothing, keeps
\* the stored handle and leaves status true.
StartWhileRunningIsNoOp ==
    [][\A t \in Threads :
          (pc[t] = "start_cs" /\ pc'[t] = "start_ret" /\ status)
          => /\ ret'[t] = "ok"
             /\ status'
             /\ cmd' = cmd
             /\ proc' = proc
             /\ watcher' = watcher
             /\ nextPid' = nextPid]_vars

\* C5, witness: a Start has returned success as a no-op while the one process
\* was alive.
StartWasNoOp ==
    \E t \in Threads :
        /\ pc[t] = "start_ret"
        /\ logged[t] = "already_running"
        /\ ret[t] = "ok"
        /\ status /\ cmd # NoPid /\ Alive(cmd)
        /\ Cardinality({p \in Pids : Alive(p)}) = 1

\* C6: a Stop that finds status false returns success, signals no process and
\* leaves status and the stored handle as they were.
StopWhileStoppedIsNoOp ==
    [][\A t \in Threads :
          (pc[t] = "stop_cs" /\ pc'[t] = "stop_ret" /\ ~status)
          => /\ ret'[t] = "ok"
             /\ ~status'
             /\ cmd' = cmd
             /\ proc' = proc]_vars

\* C6, witness: a Stop has returned success as a no-op while a handle was
\* stored whose process had been reaped.
StopWasNoOp ==
    \E t \in Threads :
        /\ pc[t] = "stop_ret"
        /\ logged[t] = "no_active_stream"
        /\ ret[t] = "ok"
        /\ ~status /\ cmd # NoPid /\ proc[cmd] = "reaped"

\* C7: a Start whose launch fails returns the error and changes nothing: status
\* stays false, the handle is not replaced, no process and no watcher appear.
LaunchFailureChangesNothing ==
    [][\A t \in Threads :
          (pc[t] = "start_cs" /\ pc'[t] = "start_ret" /\ logged'[t] = "start_failed")
          => /\ ret'[t] = "err"
             /\ ~status /\ ~status'
             /\ cmd' = cmd
             /\ proc' = proc
             /\ watcher' = watcher
             /\ nextPid' = nextPid]_vars

\* C7, witness: a Start has returned the launch error while an earlier handle
\* was stored.
LaunchFailed ==
    \E t \in Threads :
        /\ pc[t] = "start_ret"
        /\ logged[t] = "start_failed"
        /\ ret[t] = "err"
        /\ ~status /\ cmd # NoPid

\* C8: a Stop whose termination signal fails because the process is already
\* gone returns success.
KillFailureIsSuccess ==
    \A t \in Threads : logged[t] = "kill_failed" => ret[t] = "ok"

\* C9: once main's shutdown sequence has cancelled its scopes and main has
\* returned, no launched process remains alive. A process that has been sent
\* its SIGKILL and has not yet died is not counted.
NoOrphanAfterShutdown ==
    (mainPc = "exited" /\ monCancelled) => \A p \in Pids : proc[p] # "running"

\* C10: a level that read High for longer than the debounce window and then
\* reads Low for longer than the window has produced exactly one callback.
CleanPressFiresOnce ==
    (shape = "pressed" /\ heldMs > DebounceMs) => callbacks = 1

\* C11: an input that keeps changing level, with no level staying for longer
\* than the debounce window (a transition that reverses before the window has
\* elapsed included), has produced no callback invocation.
OscillationFiresNothing == confirmed = NoLevel => callbacks = 0

\* C11, witness: the input has been read for more than two windows, has taken
\* both levels, reads Low, and no level has stayed for longer than the window.
OscillatedForTwoWindows ==
    /\ confirmed = NoLevel
    /\ now > 2 * DebounceMs
    /\ shape = "other"
    /\ level = Low
    /\ ~tickPending

\* C12: the callback fires exactly once per confirmed transition into the
\* pressed level: the callbacks invoked so far are as many as the times the
\* input, after staying High for longer than the window, has stayed Low for
\* longer than the window.
CallbackOncePerConfirmedPress == callbacks = presses

\* C13: once the loop has observed the cancellation (it took the case of
\* ctx.Done()), it has returned for good: no further tick is received, the pin
\* is not read again and no callback is invoked.
ReturnedLoopIsSilent ==
    [][monPc = "returned"
       => /\ monPc' = "returned"
          /\ callbacks' = callbacks
          /\ tickPending' = tickPending
          /\ level' = level
          /\ lastState' = lastState
          /\ lastDebounce' = lastDebounce
          /\ heldMs' = heldMs
          /\ shape' = shape]_vars

\* C13, witness: the loop has returned while a tick was in the channel and the
\* application is still running.
ReturnedWithTickPending ==
    monPc = "returned" /\ tickPending /\ AppRunning /\ now > 0

DeliveredOrRemoved ==
    \A b \in Publishers :
        pubPc[b] = "idle" =>
            /\ \A c \in atStart[b] \cap clients : c \in delivered[b]
            /\ (atStart[b] \cap failedOnce = {} => delivered[b] = atStart[b])

\* C15, witness: a broadcast has returned after writing the message to all the
\* connections, which are all registered, while the other broadcast is in its pass.
DeliveredToAll ==
    \E b \in Publishers :
        /\ pubPc[b] = "idle"
        /\ atStart[b] = Conns
        /\ delivered[b] = Conns
        /\ clients = Conns
        /\ hubR # {}

\* C16: a connection a write of a broadcast has failed on is absent from the
\* set when that broadcast returns; it never comes back into the set, and once
\* it is absent no range of a broadcast produces it.
FailedSubscriberIsDropped ==
    /\ [](\A b \in Publishers : pubPc[b] = "idle" => FailedInPass(b) \cap clients = {})
    /\ [][\A c \in failedOnce :
             c \notin clients =>
                 /\ c \notin clients'
                 /\ \A b \in Publishers : cur'[b] = c => cur[b] = c]_vars

\* C16, witness: a broadcast has returned after one write that failed and one
\* that succeeded; the connection of the failed write is absent from the set.
ReturnedAfterFailedWrite ==
    \E b \in Publishers :
        /\ pubPc[b] = "idle"
        /\ FailedInPass(b) # {}
        /\ delivered[b] # {}
        /\ FailedInPass(b) \cap clients = {}
        /\ ~hubFatal

\* C17: once a write to a connection has failed, no broadcast attempts a write
\* to that connection.
NoWriteAfterFailure == ~retried

\* C18: a connection whose removeClient has returned is not in the set; a
\* broadcast writes only to connections that were in the set when it began, and
\* when none of their writes has failed it has written to exactly those.
PublishReachesOnlyRegistered ==
    /\ \A c \in Conns : connPc[c] = "ended" => c \notin clients
    /\ \A b \in Publishers : visited[b] \subseteq atStart[b]
    /\ \A b \in Publishers :
           (pubPc[b] = "iter" /\ PassDone(b) /\ atStart[b] \cap failedOnce = {})
           => delivered[b] = atStart[b]

\* C18, witness: one connection was unsubscribed by its goroutine with no write
\* ever failing on it, and a broadcast that began after that is at the end of
\* its pass, having written to exactly the other connections.
ReachedTheOthers ==
    \E b \in Publishers : \E c \in Conns :
        /\ connPc[c] = "ended"
        /\ c \notin failedOnce
        /\ pubPc[b] = "iter"
        /\ PassDone(b)
        /\ atStart[b] = Conns \ {c}
        /\ delivered[b] = atStart[b]

\* C19: removeClient runs with no broadcast in its pass, and a removeClient for
\* a connection that is not in the set leaves the set as it is and does not
\* stop the program.
UnsubscribeMissingKeyIsNoOp ==
    /\ [](\A c \in Conns : connPc[c] = "remove_cs" => hubR = {})
    /\ [][\A c \in Conns :
             (connPc[c] = "remove_cs" /\ connPc'[c] = "ended" /\ c \notin clients)
             => (clients' = clients /\ hubFatal' = hubFatal)]_vars

\* C19, witness: removeClient has returned for a connection that a broadcast,
\* which has returned since, had removed after a failed write.
UnsubscribedAfterFailedWrite ==
    \E b \in Publishers : \E c \in Conns :
        /\ connPc[c] = "ended"
        /\ pubPc[b] = "idle"
        /\ c \in FailedInPass(b)
        /\ clients # {}
        /\ ~hubFatal

\* C20: every connection whose addClient has returned, whose removeClient has
\* not begun and on which no write has failed is in the set.
SubscribedAreRegistered ==
    \A c \in Conns :
        (connPc[c] \in {"reading", "want_remove"} /\ c \notin failedOnce) => c \in clients

\* C20, witness: all the connections have been added and are in the set, no
\* write has failed, and both broadcasts are writing.
AllSubscribed ==
    /\ \A c \in Conns : connPc[c] = "reading"
    /\ clients = Conns
    /\ failedOnce = {}
    /\ \A b \in Publishers : pubPc[b] = "write"

\* C24: a Stop that finds the session running sends the signal and returns
\* success: the step neither makes any process exited nor moves any watcher,
\* and a process that was running is left signalled, not yet dead.
StopOnlyRequestsTermination ==
    [][\A t \in Threads :
          (pc[t] = "stop_cs" /\ pc'[t] = "stop_ret" /\ logged'[t] = "stopped")
          => /\ ret'[t] = "ok"
             /\ ~status'
             /\ watcher' = watcher
             /\ \A p \in Pids : (proc'[p] \in {"zombie", "reaped"}) <=> (proc[p] \in {"zombie", "reaped"})
             /\ (proc[cmd] = "running" => proc'[cmd] = "killed")]_vars

\* C24, witness: a Stop has returned success while the process it signalled is
\* still alive and its watcher still waits for the exit.
StopReturnedBeforeExit ==
    \E t \in Threads :
        /\ pc[t] = "stop_ret"
        /\ logged[t] = "stopped"
        /\ ret[t] = "ok"
        /\ ~status
        /\ proc[cmd] = "killed"
        /\ watcher[cmd] = "wait"

\* C25: when two Stop calls that overlap have both returned, at least one of
\* them having found the session running, both have returned success, status
\* is false and the tracked process has been signalled or has exited.
ConcurrentStopsSucceed ==
    ((\A t \in Threads : pc[t] = "stop_ret")
        /\ (\E t \in Threads : logged[t] \in {"stopped", "kill_failed"}))
    => /\ \A t \in Threads : ret[t] = "ok"
       /\ ~status
       /\ cmd # NoPid
       /\ proc[cmd] # "running"

\* C27: at most one goroutine is inside a critical section of StartStream,
\* StopStream or a watcher, and while one is, no IsStreaming holds the mutex
\* for reading; an IsStreaming reads status only while it holds the mutex.
CriticalSectionsExclusive ==
    /\ Cardinality(CallersInCs) + Cardinality(WatchersInCs) <= 1
    /\ (mutexR # {} => (CallersInCs = {} /\ WatchersInCs = {}))
    /\ \A t \in Threads : pc[t] = "read_cs" <=> t \in mutexR
    /\ (CallersInCs = {} /\ WatchersInCs = {}) <=> mutexW = NoHolder

\* C27, witness: a caller is inside its critical section while the callback
\* waits to read status and a watcher waits for the mutex.
CriticalSectionContended ==
    /\ \E t \in Threads : pc[t] \in {"start_cs", "stop_cs"}
    /\ pc[Gpio] = "want_read"
    /\ \E p \in Pids : watcher[p] = "lock"

\* C28: the client map has one mutual-exclusion domain: a broadcast that is
\* about to delete its failed client is the only goroutine at the map, a
\* goroutine holding the mutex for writing excludes every broadcast, and the
\* runtime never stops the program for a concurrent access to the map.
ClientMapExclusive ==
    /\ \A b \in Publishers : pubPc[b] = "failed" => hubR = {b}
    /\ (hubW # NoConn => hubR = {})
    /\ ~hubFatal

\* C30: a pass of the loop that reads the level the previous pass read leaves
\* the settling timestamp as it was.
ConstantLevelKeepsSettling ==
    [][(tickPending /\ ~tickPending' /\ shape # "start" /\ level' = level)
         => lastDebounce' = lastDebounce]_vars

\* C22: with the presses and requests issued one at a time and every launch
\* succeeding, a press toggles the session: the callback goes to StartStream
\* only when no process of a session is running, and to StopStream only when
\* the tracked process is.
PressTogglesSession ==
    /\ pc[Gpio] \in {"want_start", "start_cs"} => \A p \in Pids : proc[p] # "running"
    /\ pc[Gpio] \in {"want_stop", "stop_cs"} => (cmd # NoPid /\ proc[cmd] = "running")

\* C26: a broadcast that has begun its pass returns, whatever its subscribers
\* do (or the runtime has stopped the program).
StalledWriteDoesNotHoldPublish ==
    \A b \in Publishers : (pubPc[b] # "idle") ~> (pubPc[b] = "idle" \/ hubFatal)

\* C29: while a broadcast writes to a subscriber that has stopped reading, a
\* connection that wants to subscribe or unsubscribe finds the mutex free.
SlowWriteLeavesLockFree ==
    \A b \in Publishers : \A c \in Conns :
        (/\ pubPc[b] = "write"
         /\ stalled[cur[b]]
         /\ ~broken[cur[b]]
         /\ connPc[c] \in {"want_add", "want_remove"}
         /\ hubW = NoConn)
        => HubFreeForWriter

\* C21: when facade.StartStream or facade.StopStream returns, it has broadcast
\* exactly one message, 'Stream started' or 'Stream stopped', if the streamer
\* returned nil (a no-op included), and nothing if the streamer returned an
\* error, which is then what the facade returns; no call ever has more than
\* one broadcast, and none after an error.
OneEventIffSuccess ==
    [][\A h \in Handlers :
          /\ Len(published'[h]) <= 1
          /\ (published'[h] # <<>> => ret'[h] = "ok")
          /\ (InFacadeCall(h) /\ pc'[h] = "idle")
             => /\ (ret[h] = "ok" => published[h] = <<MessageOf(h)>>)
                /\ (ret[h] = "err" => published[h] = <<>>)
                /\ ret[h] \in {"ok", "err"}]_vars

\* C21, witness: a start-stream request that found the stream already running
\* has broadcast 'Stream started' and is about to return.
NoOpStartPublished ==
    \E h \in Handlers :
        /\ pc[h] = "start_ret"
        /\ logged[h] = "already_running"
        /\ published[h] = <<StreamStarted>>
        /\ FacadeDone(h)

\* The clients that were registered when the broadcast of a call began and
\* whose connection is still sound.
HealthySince(h) == {c \in atStart[PubOf(h)] : ~broken[c]}

\* C23: a facade call whose streamer call has succeeded returns; when it
\* returns, every client registered before its broadcast and still sound has
\* its message as the last one received, and after a stop-stream call status
\* is false; a client receives a message only inside the call that
\* broadcasts it, so 'Stream started' arrives before the 'Stream stopped' of
\* the next call.
StartThenStopDelivered ==
    /\ \A h \in Handlers : NeedsPublish(h) ~> (pc[h] = "idle")
    /\ [][\A h \in Handlers :
            (InFacadeCall(h) /\ pc'[h] = "idle" /\ ret[h] = "ok")
            => /\ \A c \in HealthySince(h) :
                    inbox[c] # <<>> /\ inbox[c][Len(inbox[c])] = MessageOf(h)
               /\ (pc[h] = "stop_ret" => ~status)]_vars
    /\ [][\A c \in Conns :
            inbox'[c] # inbox[c]
            => \E h \in Handlers :
                  /\ InFacadeCall(h)
                  /\ pubPc[PubOf(h)] = "write"
                  /\ inbox'[c][Len(inbox'[c])] = MessageOf(h)]_vars

\* C23, witness: a client registered before the start-stream request has
\* received 'Stream started' and then 'Stream stopped', its connection is
\* sound, the stop-stream request has returned and status is false.
StartedThenStoppedReceived ==
    \E c \in Conns :
        /\ inbox[c] = <<StreamStarted, StreamStopped>>
        /\ ~broken[c]
        /\ c \in clients
        /\ lastEffective = "stop"
        /\ \A h \in Handlers : pc[h] = "idle"
        /\ ~status

\* C32: once the exit of the tracked process has been recorded, or the process
\* has been stopped, no handle is stored.
HandleClearedAfterExit ==
    cmd # NoPid => (Alive(cmd) /\ status) \/ watcher[cmd] \in {"wait", "lock", "cs"}

\* C32, as amended: the stored handle is never cleared: it stays after the
\* process has exited or was killed, until a launching Start replaces it.
\* Every launching Start stores a handle that was never used before, and a
\* Stop that finds status false sends no signal through the handle it finds.
HandleReplacedNeverCleared ==
    [][/\ (cmd # NoPid => cmd' # NoPid)
       /\ \A t \in Threads :
            (pc[t] = "start_cs" /\ logged'[t] = "started")
            => (cmd' # cmd /\ proc[cmd'] = "unborn" /\ proc'[cmd'] = "running")
       /\ (cmd' # cmd => \E t \in Threads : pc[t] = "start_cs" /\ logged'[t] = "started")
       /\ \A t \in Threads :
            (pc[t] = "stop_cs" /\ pc'[t] = "stop_ret" /\ ~status) => proc' = proc]_vars

\* C32, witness: a second handle is stored, its process has exited, the
\* watcher has recorded the exit, and the handle is still there.
HandleKeptAfterExit ==
    /\ cmd # NoPid
    /\ \E p \in Pids : p < cmd
    /\ ~status
    /\ proc[cmd] = "reaped"
    /\ watcher[cmd] = "done"

\* C34: the watcher of a process that is no longer the tracked one leaves
\* status as it is when it completes while the tracked process is alive.
WatcherAffectsOnlyItsLaunch ==
    [][\A p \in Pids :
          (watcher[p] = "cs" /\ watcher'[p] = "done" /\ cmd # NoPid /\ p # cmd /\ Alive(cmd))
          => status' = status]_vars

\* C31: a raw level that has been read for longer than the debounce window is
\* the confirmed stable level: the tick that found it held for longer than
\* the window has promoted it.
HeldLevelIsPromoted ==
    (shape # "start" /\ heldMs > DebounceMs) => lastState = level

\* C33: once the read loop of a connection has ended, the entry of the
\* connection is eventually removed from the client map (or the runtime has
\* stopped the program).
ReadLoopEndRemovesEntry ==
    \A c \in Conns : (connPc[c] = "want_remove") ~> (c \notin clients \/ hubFatal)

\* C35: a process launched by a start-stream request whose handler has
\* returned is sent a signal only by a Stop.
HttpLaunchOutlivesRequest ==
    [][\A p \in Pids :
          (/\ ctxOf[p] = "req"
           /\ \A h \in Handlers : mine[h] # p
           /\ proc[p] = "running"
           /\ proc'[p] = "killed")
          => \E t \in Threads : pc[t] = "stop_cs" /\ pc'[t] = "stop_ret"]_vars

\* C36: the events are broadcast in the order in which the calls of the
\* streamer took the mutex: when a Stop has stopped the process a Start had
\* launched, and the Stop has made its broadcast, the Start has made its own.
EventsFollowLockOrder ==
    \A t \in Threads : \A u \in Threads :
        (/\ pc[t] = "start_ret" /\ logged[t] = "started" /\ mine[t] = cmd
         /\ pc[u] = "stop_ret" /\ logged[u] = "stopped"
         /\ lastEffective = "stop"
         /\ published[u] # <<>>)
        => published[t] # <<>>

\* C37: the step of a watcher that sets status to false broadcasts nothing
\* and leaves the client map and what the clients have received unchanged; a
\* broadcast begins only inside facade.StartStream or facade.StopStream after
\* the streamer has returned nil, and a client receives a message only from
\* such a broadcast.
OnlyFacadeCallsPublish ==
    [][/\ \A p \in Pids :
            (watcher[p] = "cs" /\ watcher'[p] = "done")
            => (~status' /\ clients' = clients /\ inbox' = inbox
                /\ published' = published /\ pubPc' = pubPc)
       /\ \A b \in Publishers :
            (pubPc[b] = "idle" /\ pubPc'[b] # "idle")
            => (pc[OwnerOf(b)] \in {"start_ret", "stop_ret"} /\ ret[OwnerOf(b)] = "ok")
       /\ \A c \in Conns :
            inbox'[c] # inbox[c]
            => \E b \in Publishers : pubPc[b] = "write" /\ cur[b] = c]_vars

\* C37, witness: the watcher has set status to false after the process went
\* away without a Stop; no call is in progress, and the last message a
\* registered client with a sound connection has received is 'Stream started'.
StartedIsLastEventWhileStopped ==
    \E c \in clients :
        /\ ~broken[c]
        /\ inbox[c] # <<>>
        /\ inbox[c][Len(inbox[c])] = StreamStarted
        /\ ~status
        /\ lastEffective = "start"
        /\ cmd # NoPid
        /\ watcher[cmd] = "done"
        /\ \A h \in Handlers : pc[h] = "idle"

\* C39: no goroutine holds the mutex of the streamer and the mutex of the hub
\* at the same time, and every goroutine that holds one of them can take its
\* next step (unless the runtime has stopped the program): no goroutine waits
\* for a mutex whose holder is blocked.
NoLockNesting ==
    /\ \A t \in Threads : (mutexW = t \/ t \in mutexR) => PubOf(t) \notin hubR
    /\ \A t \in Threads : PubOf(t) \in hubR => pc[t] \in {"start_ret", "stop_ret"}
    /\ \A t \in Threads :
          mutexW = t => (ENABLED StartBody(t, TRUE) \/ ENABLED StopBody(t))
    /\ (Gpio \in mutexR => ENABLED CallbackRead)
    /\ (mutexW = WatcherHolder => \E p \in Pids : ENABLED WatcherFinish(p))
    /\ (~hubFatal =>
          /\ \A b \in hubR : ENABLED PublishStep(b)
          /\ \A c \in Conns : hubW = c => (ENABLED AddBody(c) \/ ENABLED RemoveBody(c)))

\* C39, witness: one caller is inside the critical section of the streamer
\* while the broadcast of the other holds the read lock of the hub and a
\* connection waits for the mutex of the hub.
BothLocksHeldByDifferentCallers ==
    \E t \in Threads : \E u \in Threads \ {t} :
        /\ mutexW = t
        /\ PubOf(u) \in hubR
        /\ \E c \in Conns : connPc[c] \in {"want_add", "want_remove"}

====
